---------------------------- MODULE Spec2Model ----------------------------
(*************************************************************************)
(* vault-core: the metadata codec (VaultMetadata::to_bytes/from_bytes), *)
(* the Network selector, the CoreError code table and the C boundary     *)
(* (vault_version, vault_init, free_rust_string).                        *)
(*                                                                       *)
(* Bytes are naturals in 0..255, a byte buffer is a sequence of bytes.   *)
(* The source indexes buffers from 0; Idx and Slice keep that indexing.  *)
(* A Rust String is held as its UTF-8 bytes.                             *)
(*************************************************************************)
EXTENDS Integers, Sequences, FiniteSets, TLC

VARIABLES
    metadata,   \* codec: the VaultMetadata the caller built (NoMeta: none)
    data,       \* codec: the byte buffer handed around
    result,     \* codec: what from_bytes returned (NoResult: not called)
    pc,         \* codec: where the caller is
    origin,     \* codec: how `data` was obtained
    heap,       \* boundary: live C strings, handle -> bytes
    last,       \* boundary: the last boundary call and what it returned
    fault,      \* boundary: the process has faulted
    error,      \* error model: a CoreError value
    code_out    \* error model: what CoreError::code returned (NoCode: not called)

codecVars == <<metadata, data, result, pc, origin>>
boundaryVars == <<heap, last, fault>>
errorVars == <<error, code_out>>
vars == <<metadata, data, result, pc, origin, heap, last, fault, error, code_out>>

--------------------------------------------------------------------------
(* Machine integers *)

\* u8 has 256 values
U8Mod == 256

\* variant: a cast that saturates at 255 instead of wrapping
AsU8Saturating(n) == IF n > U8Mod - 1 THEN U8Mod - 1 ELSE n

\* `x as u8`: a truncating cast
AsU8(n) == n % U8Mod

\* A u32 is held as its two 16-bit halves <<high, low>>, its value being
\* high * 65536 + low: the model checker's own integers are 32-bit signed
\* and cannot hold the upper half of the u32 range.
U16Mod == U8Mod * U8Mod

U32(n) == <<n \div U16Mod, n % U16Mod>>

U32Max == <<U16Mod - 1, U16Mod - 1>>

\* variant: most significant byte first
to_be_bytes(x) == <<x[1] \div U8Mod, x[1] % U8Mod, x[2] \div U8Mod, x[2] % U8Mod>>

\* u32::to_le_bytes, least significant byte first
to_le_bytes(x) == <<x[2] % U8Mod, x[2] \div U8Mod, x[1] % U8Mod, x[1] \div U8Mod>>

\* u32::from_le_bytes([b0, b1, b2, b3])
from_le_bytes(b) == <<b[3] + U8Mod * b[4], b[1] + U8Mod * b[2]>>

--------------------------------------------------------------------------
(* Buffers, indexed from 0 as in the source *)

\* data[i]; the value of an out-of-range read is never used: Ret turns the
\* first out-of-range access into a panic
Idx(buf, i) == IF i >= 0 /\ i < Len(buf) THEN buf[i + 1] ELSE 0

\* data[s..e].to_vec()
Slice(buf, s, e) == [j \in 1..(e - s) |-> Idx(buf, s + j - 1)]

\* the indices an access <<lo, hi>> (the half-open range lo..hi) touches
RangeOf(a) == a[1]..(a[2] - 1)

\* an index or slice expression panics when its end is past the buffer
OutOfBounds(buf, a) == a[2] > Len(buf)

--------------------------------------------------------------------------
(* String::from_utf8: the validation of core::str, byte by byte.         *)
(* The answer is [ok, valid_up_to, error_len]; error_len 0 is an         *)
(* incomplete sequence at the end of the input.                          *)

IsCont(b) == b >= 128 /\ b <= 191

utf8_char_width(b) ==
    IF b < 128 THEN 1
    ELSE IF b >= 194 /\ b <= 223 THEN 2
    ELSE IF b >= 224 /\ b <= 239 THEN 3
    ELSE IF b >= 240 /\ b <= 244 THEN 4
    ELSE 0

\* the second byte of a 3- or 4-byte sequence, by its first byte
SecondOk(first, b) ==
    \/ first = 224 /\ b >= 160 /\ b <= 191
    \/ first >= 225 /\ first <= 236 /\ IsCont(b)
    \/ first = 237 /\ b >= 128 /\ b <= 159
    \/ first >= 238 /\ first <= 239 /\ IsCont(b)
    \/ first = 240 /\ b >= 144 /\ b <= 191
    \/ first >= 241 /\ first <= 243 /\ IsCont(b)
    \/ first = 244 /\ b >= 128 /\ b <= 143

Utf8Err(i, n) == [ok |-> FALSE, valid_up_to |-> i, error_len |-> n]

\* the first index at or after i that holds a non-ASCII byte, Len(b) if none:
\* the validation steps over ASCII bytes without looking further at them
SkipAscii(b, i) ==
    LET rest == {j \in i..(Len(b) - 1) : Idx(b, j) >= 128}
    IN  IF rest = {} THEN Len(b) ELSE CHOOSE j \in rest : \A k \in rest : j <= k

RECURSIVE run_utf8_validation(_, _)
run_utf8_validation(b, from) ==
    LET i == SkipAscii(b, from)
    IN  IF i >= Len(b) THEN [ok |-> TRUE, valid_up_to |-> Len(b), error_len |-> 0]
        ELSE LET first == Idx(b, i)
                 w == utf8_char_width(first)
             IN  IF w = 0 THEN Utf8Err(i, 1)
                 ELSE IF i + 1 >= Len(b) THEN Utf8Err(i, 0)
                 ELSE IF w = 2 /\ ~IsCont(Idx(b, i + 1)) THEN Utf8Err(i, 1)
                 ELSE IF w > 2 /\ ~SecondOk(first, Idx(b, i + 1)) THEN Utf8Err(i, 1)
                 ELSE IF w = 2 THEN run_utf8_validation(b, i + 2)
                 ELSE IF i + 2 >= Len(b) THEN Utf8Err(i, 0)
                 ELSE IF ~IsCont(Idx(b, i + 2)) THEN Utf8Err(i, 2)
                 ELSE IF w = 3 THEN run_utf8_validation(b, i + 3)
                 ELSE IF i + 3 >= Len(b) THEN Utf8Err(i, 0)
                 ELSE IF ~IsCont(Idx(b, i + 3)) THEN Utf8Err(i, 3)
                 ELSE run_utf8_validation(b, i + 4)

from_utf8(b) == run_utf8_validation(b, 0)

--------------------------------------------------------------------------
(* RecoveryType and its byte *)

RecoveryTypes == {"EmergencyKey", "TimelockOnly", "MultiSig"}

\* the match of to_bytes
RecoveryTypeByte(rt) ==
    CASE rt = "EmergencyKey" -> 0
      [] rt = "TimelockOnly" -> 1
      [] rt = "MultiSig" -> 2

\* variant: every byte other than 0 and 1 taken for MultiSig
RecoveryTypeFromByteLax(v) ==
    CASE v = 0 -> "EmergencyKey"
      [] v = 1 -> "TimelockOnly"
      [] OTHER -> "MultiSig"

\* the match of from_bytes: "Invalid" is the arm `v => return Err(..)`
RecoveryTypeFromByte(v) ==
    CASE v = 0 -> "EmergencyKey"
      [] v = 1 -> "TimelockOnly"
      [] v = 2 -> "MultiSig"
      [] OTHER -> "Invalid"

--------------------------------------------------------------------------
(* VaultMetadata and CoreError values *)

VaultMetadata(v, tid, delay, dests, rt, created, index) ==
    [version |-> v, template_id |-> tid, delay_blocks |-> delay,
     destination_indices |-> dests, recovery_type |-> rt,
     created_at_block |-> created, vault_index |-> index]

\* no metadata: the caller holds none, or from_bytes returned none
NoMeta == VaultMetadata(-1, <<>>, U32(0), <<>>, "None", U32(0), U32(0))

\* a CoreError with one String payload: the text and what format! put in it
CoreError(kind, text, args) == [kind |-> kind, text |-> text, args |-> args]

MetadataError(text, args) == CoreError("MetadataError", text, args)

NoError == CoreError("None", "", <<>>)

\* Result<VaultMetadata, CoreError>, or the panic of an out-of-range access
Ok(value) == [kind |-> "Ok", value |-> value, err |-> NoError, reads |-> {}]

Err(e) == [kind |-> "Err", value |-> NoMeta, err |-> e, reads |-> {}]

Panic == [kind |-> "Panic", value |-> NoMeta, err |-> NoError, reads |-> {}]

NoResult == [kind |-> "None", value |-> NoMeta, err |-> NoError, reads |-> {}]

\* What a return of from_bytes yields after the accesses made so far, in order:
\* the first access past the end of the buffer panics there and then; `reads`
\* is every index touched up to the return (or the panic).
Ret(buf, accesses, outcome) ==
    LET bad == {j \in DOMAIN accesses : OutOfBounds(buf, accesses[j])}
        stop == IF bad = {} THEN Len(accesses)
                ELSE CHOOSE j \in bad : \A k \in bad : j <= k
        touched == UNION {RangeOf(accesses[j]) : j \in 1..stop}
    IN  IF bad = {} THEN [outcome EXCEPT !.reads = touched]
        ELSE [Panic EXCEPT !.reads = touched]

--------------------------------------------------------------------------
(* VaultMetadata::to_bytes *)

\* variant: the version byte left out
to_bytes_no_version(m) ==
    <<AsU8(Len(m.template_id))>> \o m.template_id
        \o to_le_bytes(m.delay_blocks)
        \o <<AsU8(Len(m.destination_indices))>> \o m.destination_indices
        \o <<RecoveryTypeByte(m.recovery_type)>>
        \o to_le_bytes(m.created_at_block)
        \o to_le_bytes(m.vault_index)

\* fields in the source's order; each variable-length field after a one-byte
\* length prefix, which is the length cast to u8
to_bytes(m) ==
    <<m.version>>
        \o <<AsU8(Len(m.template_id))>> \o m.template_id
        \o to_le_bytes(m.delay_blocks)
        \o <<AsU8(Len(m.destination_indices))>> \o m.destination_indices
        \o <<RecoveryTypeByte(m.recovery_type)>>
        \o to_le_bytes(m.created_at_block)
        \o to_le_bytes(m.vault_index)

--------------------------------------------------------------------------
(* VaultMetadata::from_bytes *)

\* variant: `pos > data.len()`
NoByteAtOffByOne(buf, pos) == pos > Len(buf)

\* `pos >= data.len()`: no byte is left at pos
NoByteAt(buf, pos) == pos >= Len(buf)

\* variant: `pos + n > data.len() + 1`
ShortOffByOne(buf, pos, n) == pos + n > Len(buf) + 1

\* `pos + n > data.len()`: fewer than n bytes are left at pos
Short(buf, pos, n) == pos + n > Len(buf)

\* [data[pos], data[pos+1], data[pos+2], data[pos+3]]
Four(buf, pos) == <<Idx(buf, pos), Idx(buf, pos + 1), Idx(buf, pos + 2), Idx(buf, pos + 3)>>

FourAccesses(pos) == <<<<pos, pos + 1>>, <<pos + 1, pos + 2>>, <<pos + 2, pos + 3>>, <<pos + 3, pos + 4>>>>

from_bytes(buf) ==
    IF Len(buf) = 0
    THEN Ret(buf, <<>>, Err(MetadataError("Empty metadata bytes", <<>>)))
    ELSE
    \* Version
    LET pos0 == 0
        version == Idx(buf, pos0)
        acc0 == <<<<pos0, pos0 + 1>>>>
        pos1 == pos0 + 1
    IN
    \* Template ID
    IF NoByteAt(buf, pos1)
    THEN Ret(buf, acc0, Err(MetadataError("Truncated metadata", <<>>)))
    ELSE
    LET template_id_len == Idx(buf, pos1)
        acc1 == Append(acc0, <<pos1, pos1 + 1>>)
        pos2 == pos1 + 1
    IN
    IF Short(buf, pos2, template_id_len)
    THEN Ret(buf, acc1, Err(MetadataError("Invalid template_id length", <<>>)))
    ELSE
    LET template_id == Slice(buf, pos2, pos2 + template_id_len)
        acc2 == Append(acc1, <<pos2, pos2 + template_id_len>>)
        utf8 == from_utf8(template_id)
        pos3 == pos2 + template_id_len
    IN
    IF ~utf8.ok
    THEN Ret(buf, acc2, Err(MetadataError("Invalid UTF-8: ",
                                          <<utf8.valid_up_to, utf8.error_len>>)))
    ELSE
    \* Delay blocks
    IF Short(buf, pos3, 4)
    THEN Ret(buf, acc2, Err(MetadataError("Truncated delay_blocks", <<>>)))
    ELSE
    LET delay_blocks == from_le_bytes(Four(buf, pos3))
        acc3 == acc2 \o FourAccesses(pos3)
        pos4 == pos3 + 4
    IN
    \* Destination indices
    IF NoByteAt(buf, pos4)
    THEN Ret(buf, acc3, Err(MetadataError("Truncated destination_indices", <<>>)))
    ELSE
    LET dest_count == Idx(buf, pos4)
        acc4 == Append(acc3, <<pos4, pos4 + 1>>)
        pos5 == pos4 + 1
    IN
    IF Short(buf, pos5, dest_count)
    THEN Ret(buf, acc4, Err(MetadataError("Invalid destination_indices length", <<>>)))
    ELSE
    LET destination_indices == Slice(buf, pos5, pos5 + dest_count)
        acc5 == Append(acc4, <<pos5, pos5 + dest_count>>)
        pos6 == pos5 + dest_count
    IN
    \* Recovery type
    IF NoByteAt(buf, pos6)
    THEN Ret(buf, acc5, Err(MetadataError("Truncated recovery_type", <<>>)))
    ELSE
    LET v == Idx(buf, pos6)
        recovery_type == RecoveryTypeFromByte(v)
        acc6 == Append(acc5, <<pos6, pos6 + 1>>)
        pos7 == pos6 + 1
    IN
    IF recovery_type = "Invalid"
    THEN Ret(buf, acc6, Err(MetadataError("Invalid recovery_type: ", <<v>>)))
    ELSE
    \* Created at block
    IF Short(buf, pos7, 4)
    THEN Ret(buf, acc6, Err(MetadataError("Truncated created_at_block", <<>>)))
    ELSE
    LET created_at_block == from_le_bytes(Four(buf, pos7))
        acc7 == acc6 \o FourAccesses(pos7)
        pos8 == pos7 + 4
    IN
    \* Vault index
    IF Short(buf, pos8, 4)
    THEN Ret(buf, acc7, Err(MetadataError("Truncated vault_index", <<>>)))
    ELSE
    LET vault_index == from_le_bytes(Four(buf, pos8))
        acc8 == acc7 \o FourAccesses(pos8)
    IN
    Ret(buf, acc8, Ok(VaultMetadata(version, template_id, delay_blocks,
                                    destination_indices, recovery_type,
                                    created_at_block, vault_index)))

--------------------------------------------------------------------------
(* The inputs of the codec *)

\* how far past 255 the long template ids and destination lists go
MaxOver == 1

\* the longest buffer received from outside that is enumerated in full
MaxRawLen == 8

\* the longest encoded buffer whose bytes are overwritten one at a time
MaxTamperLen == 24

Pad(c, n) == [j \in 1..n |-> c]

\* "savings_v1"
SavingsV1 == <<115, 97, 118, 105, 110, 103, 115, 95, 118, 49>>

\* "", "a", "\0", "e" with an acute accent (two bytes)
ShortTemplateIds == {<<>>, <<97>>, <<0>>, <<195, 169>>}

LongLengths == (U8Mod - 1)..(U8Mod - 1 + MaxOver)

LongTemplateIds == {Pad(c, n) : c \in {0, 1, 97}, n \in LongLengths}

ShortDestinations == {<<>>, <<0>>, <<3, 255>>}

LongDestinations == {Pad(c, n) : c \in {0, 7}, n \in LongLengths}

\* the metadata of test_metadata_roundtrip
TestMetadata ==
    VaultMetadata(1, SavingsV1, U32(1008), <<0, 1, 2>>, "EmergencyKey", U32(800000), U32(42))

ShortMetas ==
    {VaultMetadata(v, tid, delay, dests, rt, created, index) :
        v \in {1, 255}, tid \in ShortTemplateIds, delay \in {U32(0), U32(16909060), U32Max},
        dests \in ShortDestinations, rt \in RecoveryTypes,
        created \in {U32(0), U32(800000)}, index \in {U32(42), U32Max}}

LongMetas ==
    {VaultMetadata(1, tid, U32(1008), dests, "TimelockOnly", U32(800000), U32(42)) :
        tid \in LongTemplateIds \cup {<<97>>},
        dests \in LongDestinations \cup {<<0>>}}

Metas == ShortMetas \cup LongMetas \cup {TestMetadata}

RawBytes == {0, 3, 200}

RECURSIVE BuffersOfLen(_)
BuffersOfLen(n) ==
    IF n = 0 THEN {<<>>}
    ELSE {Append(b, x) : b \in BuffersOfLen(n - 1), x \in RawBytes}

RawBuffers == UNION {BuffersOfLen(n) : n \in 0..MaxRawLen}

TamperBytes == {0, 3, 200, 255}

--------------------------------------------------------------------------
(* The codec and its caller *)

CodecInit ==
    /\ result = NoResult
    /\ \/ /\ metadata \in Metas
          /\ data = <<>>
          /\ pc = "built"
          /\ origin = "none"
       \/ /\ metadata = NoMeta
          /\ data \in RawBuffers
          /\ pc = "ready"
          /\ origin = "received"

CodecIdle ==
    /\ metadata = NoMeta
    /\ data = <<>>
    /\ result = NoResult
    /\ pc = "idle"
    /\ origin = "none"

\* the caller encodes its metadata
ToBytes ==
    /\ pc = "built"
    /\ data' = to_bytes(metadata)
    /\ pc' = "ready"
    /\ origin' = "encoded"
    /\ UNCHANGED <<metadata, result>>

\* the encoded buffer comes back cut short
Truncate ==
    /\ pc = "ready"
    /\ origin = "encoded"
    /\ \E k \in 0..(Len(data) - 1) : data' = SubSeq(data, 1, k)
    /\ origin' = "truncated"
    /\ UNCHANGED <<metadata, result, pc>>

\* the encoded buffer comes back with one byte overwritten
Tamper ==
    /\ pc = "ready"
    /\ origin = "encoded"
    /\ Len(data) <= MaxTamperLen
    /\ \E i \in 1..Len(data), b \in TamperBytes :
          /\ data[i] # b
          /\ data' = [data EXCEPT ![i] = b]
    /\ origin' = "tampered"
    /\ UNCHANGED <<metadata, result, pc>>

\* the caller decodes the buffer it holds
FromBytes ==
    /\ pc = "ready"
    /\ result' = from_bytes(data)
    /\ pc' = "decoded"
    /\ UNCHANGED <<metadata, data, origin>>

--------------------------------------------------------------------------
(* Network and TryFrom<i32> for Network *)

I32Min == -2147483647 - 1

I32Max == 2147483647

\* variant: a range test that lets 4 through
try_from_nonnegative(value) ==
    IF value >= 0 /\ value <= 4
    THEN [ok |-> TRUE, network |-> "Regtest", err |-> NoError]
    ELSE [ok |-> FALSE, network |-> "None",
          err |-> CoreError("InvalidInput", "Invalid network value: ", <<value>>)]

\* Result<Network, CoreError>
try_from(value) ==
    CASE value = 0 -> [ok |-> TRUE, network |-> "Mainnet", err |-> NoError]
      [] value = 1 -> [ok |-> TRUE, network |-> "Testnet", err |-> NoError]
      [] value = 2 -> [ok |-> TRUE, network |-> "Signet", err |-> NoError]
      [] value = 3 -> [ok |-> TRUE, network |-> "Regtest", err |-> NoError]
      [] OTHER -> [ok |-> FALSE, network |-> "None",
                   err |-> CoreError("InvalidInput", "Invalid network value: ", <<value>>)]

\* the i32 values callers pass
NetworkCodes == {I32Min, -1, 0, 1, 2, 3, 4, 999, I32Max}

--------------------------------------------------------------------------
(* The C boundary: lib.rs and ffi::to_c_string *)

\* the null pointer
NULL == 0

\* the addresses the allocator hands out
MaxHandles == 3

Handles == 1..MaxHandles

Pointers == {NULL} \cup Handles

\* env!("CARGO_PKG_VERSION"): "0.1.0"
CARGO_PKG_VERSION == <<48, 46, 49, 46, 48>>

\* "error: invalid string"
InvalidString ==
    <<101, 114, 114, 111, 114, 58, 32, 105, 110, 118, 97, 108, 105, 100,
      32, 115, 116, 114, 105, 110, 103>>

\* the bytes of the C string to_c_string allocates: CString::new refuses an
\* interior NUL
to_c_string(str) ==
    IF \E j \in DOMAIN str : str[j] = 0 THEN InvalidString ELSE str

Call(op, arg, ret) == [op |-> op, arg |-> arg, ret |-> ret]

BoundaryInit ==
    /\ heap = <<>>
    /\ last = Call("none", 0, 0)
    /\ fault = FALSE

\* vault_version: a fresh C string, owned by the caller from now on
vault_version ==
    /\ ~fault
    /\ \E h \in Handles \ DOMAIN heap :
          /\ heap' = [p \in DOMAIN heap \cup {h} |->
                        IF p = h THEN to_c_string(CARGO_PKG_VERSION) ELSE heap[p]]
          /\ last' = Call("vault_version", 0, h)
    /\ UNCHANGED fault

\* vault_init(network)
vault_init(network) ==
    /\ ~fault
    /\ last' = Call("vault_init", network, IF try_from(network).ok THEN 0 ELSE -1)
    /\ UNCHANGED <<heap, fault>>

\* CString::from_raw(ptr) and its drop. On a pointer that is not a live C string
\* this is undefined behaviour: the call may do nothing, fault, or damage the
\* heap (any of the live strings may be lost).
from_raw_and_drop(ptr) ==
    IF ptr \in DOMAIN heap
    THEN /\ heap' = [p \in DOMAIN heap \ {ptr} |-> heap[p]]
         /\ UNCHANGED fault
    ELSE /\ \E keep \in SUBSET DOMAIN heap : heap' = [p \in keep |-> heap[p]]
         /\ fault' \in BOOLEAN

\* variant: no null check
free_rust_string_unchecked(ptr) ==
    /\ ~fault
    /\ last' = Call("free_rust_string", ptr, 0)
    /\ from_raw_and_drop(ptr)

\* free_rust_string(ptr)
free_rust_string(ptr) ==
    /\ ~fault
    /\ last' = Call("free_rust_string", ptr, 0)
    /\ IF ptr = NULL
       THEN UNCHANGED <<heap, fault>>
       ELSE from_raw_and_drop(ptr)

BoundaryIdle ==
    /\ heap = <<>>
    /\ last = Call("idle", 0, 0)
    /\ fault = FALSE

--------------------------------------------------------------------------
(* CoreError and CoreError::code *)

ErrorKinds ==
    {"InvalidXpub", "InvalidAddress", "NetworkMismatch", "PsbtError",
     "DerivationError", "MetadataError", "InsufficientFunds", "PolicyViolation",
     "SerializationError", "InvalidInput"}

StringKinds == ErrorKinds \ {"NetworkMismatch", "InsufficientFunds"}

PayloadTexts == {"", "xpub", "Truncated metadata", "Invalid network value: "}

NetworkNames == {"mainnet", "testnet", "signet", "regtest"}

CoreErrors ==
    {CoreError(k, t, <<>>) : k \in StringKinds, t \in PayloadTexts}
    \cup {[kind |-> "NetworkMismatch", expected |-> e, actual |-> a] :
             e \in NetworkNames, a \in NetworkNames}
    \cup {[kind |-> "InsufficientFunds", needed |-> n, available |-> a] :
             n \in {0, 1, 50000}, a \in {0, 1, 50000}}

\* variant: DerivationError given MetadataError's code
code_swapped(e) ==
    CASE e.kind = "InvalidXpub" -> 1001
      [] e.kind = "InvalidAddress" -> 1002
      [] e.kind = "NetworkMismatch" -> 1003
      [] e.kind = "PsbtError" -> 2001
      [] e.kind = "InsufficientFunds" -> 2002
      [] e.kind = "PolicyViolation" -> 2003
      [] e.kind = "DerivationError" -> 3002
      [] e.kind = "MetadataError" -> 3002
      [] e.kind = "SerializationError" -> 4001
      [] e.kind = "InvalidInput" -> 4002

\* CoreError::code
code(e) ==
    CASE e.kind = "InvalidXpub" -> 1001
      [] e.kind = "InvalidAddress" -> 1002
      [] e.kind = "NetworkMismatch" -> 1003
      [] e.kind = "PsbtError" -> 2001
      [] e.kind = "InsufficientFunds" -> 2002
      [] e.kind = "PolicyViolation" -> 2003
      [] e.kind = "DerivationError" -> 3001
      [] e.kind = "MetadataError" -> 3002
      [] e.kind = "SerializationError" -> 4001
      [] e.kind = "InvalidInput" -> 4002

ErrorInit ==
    /\ error \in CoreErrors
    /\ code_out = <<>>

ErrorIdle ==
    /\ error = NoError
    /\ code_out = <<>>

\* a caller asks an error for its code
Code ==
    /\ code_out = <<>>
    /\ code_out' = <<code(error)>>
    /\ UNCHANGED error

--------------------------------------------------------------------------
(* Specifications *)

\* the codec
Init == CodecInit /\ BoundaryIdle /\ ErrorIdle

Next ==
    \/ ToBytes /\ UNCHANGED <<boundaryVars, errorVars>>
    \/ Truncate /\ UNCHANGED <<boundaryVars, errorVars>>
    \/ Tamper /\ UNCHANGED <<boundaryVars, errorVars>>
    \/ FromBytes /\ UNCHANGED <<boundaryVars, errorVars>>

Spec == Init /\ [][Next]_vars

\* the C boundary: any sequence of boundary calls
InitBoundary == CodecIdle /\ BoundaryInit /\ ErrorIdle

NextBoundary ==
    \/ vault_version /\ UNCHANGED <<codecVars, errorVars>>
    \/ \E n \in NetworkCodes : vault_init(n) /\ UNCHANGED <<codecVars, errorVars>>
    \/ \E ptr \in Pointers : free_rust_string(ptr) /\ UNCHANGED <<codecVars, errorVars>>

SpecBoundary == InitBoundary /\ [][NextBoundary]_vars

\* the error model
InitError == CodecIdle /\ BoundaryIdle /\ ErrorInit

NextError == Code /\ UNCHANGED <<codecVars, boundaryVars>>

SpecError == InitError /\ [][NextError]_vars

--------------------------------------------------------------------------
(* The layout of an encoded buffer as the specification gives it, read    *)
(* position by position. These definitions state properties; they are not *)
(* part of the program.                                                   *)

\* template_id byte length and destination_indices count within the one-byte
\* length prefix
WellFormed(m) ==
    Len(m.template_id) <= U8Mod - 1 /\ Len(m.destination_indices) <= U8Mod - 1

\* the u32 stored little-endian in the four bytes at pos
LeAt(buf, pos) ==
    <<Idx(buf, pos + 2) + U8Mod * Idx(buf, pos + 3), Idx(buf, pos) + U8Mod * Idx(buf, pos + 1)>>

\* the bytes of `field` stand in buf from pos on
BytesAt(buf, pos, field) == \A j \in 1..Len(field) : Idx(buf, pos + j - 1) = field[j]

\* buf holds, in order: version, a length byte, the template_id bytes,
\* delay_blocks, a count byte, the destination bytes, the recovery_type byte,
\* created_at_block, vault_index; the two prefix bytes are the lengths mod 256
LaidOut(buf, m) ==
    LET T == Len(m.template_id)
        D == Len(m.destination_indices)
    IN  /\ Idx(buf, 0) = m.version
        /\ Idx(buf, 1) = T % U8Mod
        /\ BytesAt(buf, 2, m.template_id)
        /\ LeAt(buf, 2 + T) = m.delay_blocks
        /\ Idx(buf, 6 + T) = D % U8Mod
        /\ BytesAt(buf, 7 + T, m.destination_indices)
        /\ Idx(buf, 7 + T + D) = (CASE m.recovery_type = "EmergencyKey" -> 0
                                    [] m.recovery_type = "TimelockOnly" -> 1
                                    [] m.recovery_type = "MultiSig" -> 2)
        /\ LeAt(buf, 8 + T + D) = m.created_at_block
        /\ LeAt(buf, 12 + T + D) = m.vault_index

\* Where a buffer runs out, going through the layout in order: the first
\* position for which bytes are missing; "none" when nothing is missing before
\* decoding ends (at the end of the layout, or at a template_id that is not
\* UTF-8, or at an unknown recovery_type byte). The empty buffer has its own
\* rule and is "none" here.
Shortfall(buf) ==
    LET n == Len(buf)
        T == Idx(buf, 1)
        D == Idx(buf, 6 + T)
    IN  IF n = 0 THEN "none"
        ELSE IF n < 2 THEN "template_id length prefix"
        ELSE IF n < 2 + T THEN "template_id bytes"
        ELSE IF ~from_utf8(Slice(buf, 2, 2 + T)).ok THEN "none"
        ELSE IF n < 6 + T THEN "delay_blocks"
        ELSE IF n < 7 + T THEN "destination count"
        ELSE IF n < 7 + T + D THEN "destination bytes"
        ELSE IF n < 8 + T + D THEN "recovery_type"
        ELSE IF Idx(buf, 7 + T + D) \notin {0, 1, 2} THEN "none"
        ELSE IF n < 12 + T + D THEN "created_at_block"
        ELSE IF n < 16 + T + D THEN "vault_index"
        ELSE "none"

\* the field of VaultMetadata a position of the layout belongs to
FieldOf(position) ==
    CASE position = "template_id length prefix" -> "template_id"
      [] position = "template_id bytes" -> "template_id"
      [] position = "delay_blocks" -> "delay_blocks"
      [] position = "destination count" -> "destination_indices"
      [] position = "destination bytes" -> "destination_indices"
      [] position = "recovery_type" -> "recovery_type"
      [] position = "created_at_block" -> "created_at_block"
      [] position = "vault_index" -> "vault_index"

\* the field a MetadataError text names; "Truncated metadata" and
\* "Empty metadata bytes" name none
FieldNamed(text) ==
    CASE text = "Invalid template_id length" -> "template_id"
      [] text = "Truncated delay_blocks" -> "delay_blocks"
      [] text = "Truncated destination_indices" -> "destination_indices"
      [] text = "Invalid destination_indices length" -> "destination_indices"
      [] text = "Truncated recovery_type" -> "recovery_type"
      [] text = "Invalid recovery_type: " -> "recovery_type"
      [] text = "Truncated created_at_block" -> "created_at_block"
      [] text = "Truncated vault_index" -> "vault_index"
      [] OTHER -> "no field"

\* the position of the recovery_type byte of a buffer whose version,
\* template_id, delay_blocks and destination_indices parse; -1 when they do not
\* or when no byte stands there
RecoveryPos(buf) ==
    LET n == Len(buf)
        T == Idx(buf, 1)
        D == Idx(buf, 6 + T)
    IN  IF /\ n >= 7
           /\ n >= 7 + T
           /\ from_utf8(Slice(buf, 2, 2 + T)).ok
           /\ n >= 8 + T + D
        THEN 7 + T + D
        ELSE -1

--------------------------------------------------------------------------
(* Properties *)

\* C1: round trip. Decoding the encoding of a metadata value whose template_id
\* has at most 255 bytes and whose destination_indices has at most 255 entries
\* succeeds and gives back that value, field for field.
RoundTrip ==
    (pc = "decoded" /\ origin = "encoded" /\ WellFormed(metadata))
        => (result.kind = "Ok" /\ result.value = metadata)

\* a 255-byte template_id with 255 destinations has been encoded and decoded
RoundTripAtLimit ==
    /\ pc = "decoded"
    /\ origin = "encoded"
    /\ Len(metadata.template_id) = U8Mod - 1
    /\ Len(metadata.destination_indices) = U8Mod - 1
    /\ result.kind = "Ok"

\* C2: truncation rejection. Decoding a proper prefix of the encoding of a
\* well-formed metadata value returns Err(MetadataError), never Ok.
TruncationRejected ==
    (pc = "decoded" /\ origin = "truncated" /\ WellFormed(metadata))
        => (result.kind = "Err" /\ result.err.kind = "MetadataError")

\* an encoding cut by its last byte alone has been decoded
TruncatedByOneDecoded ==
    /\ pc = "decoded"
    /\ origin = "truncated"
    /\ WellFormed(metadata)
    /\ Len(data) = Len(to_bytes(metadata)) - 1
    /\ result.err.text = "Truncated vault_index"

\* C3: invalid discriminant. When the fields before recovery_type parse and the
\* byte at the recovery_type position is v outside {0, 1, 2}, decoding returns
\* Err(MetadataError) whose message names v, whatever follows that byte.
InvalidDiscriminantRejected ==
    (pc = "decoded" /\ RecoveryPos(data) >= 0
        /\ Idx(data, RecoveryPos(data)) \notin {0, 1, 2})
        => /\ result.kind = "Err"
           /\ result.err = MetadataError("Invalid recovery_type: ",
                                         <<Idx(data, RecoveryPos(data))>>)

\* a buffer that ends with the recovery_type byte 3 has been decoded
InvalidDiscriminantLastByte ==
    /\ pc = "decoded"
    /\ RecoveryPos(data) = Len(data) - 1
    /\ Idx(data, RecoveryPos(data)) = 3
    /\ result.kind = "Err"

\* C4: network codes. After any sequence of boundary calls, vault_init(n)
\* returns 0 exactly when n is 0, 1, 2 or 3, which Network::try_from turns into
\* Mainnet, Testnet, Signet, Regtest, and -1 for every other i32, which
\* try_from refuses with InvalidInput naming n.
NetworkCodeValidation ==
    last.op = "vault_init"
        => LET n == last.arg
               conv == try_from(n)
           IN  IF n \in {0, 1, 2, 3}
               THEN /\ last.ret = 0
                    /\ conv.ok
                    /\ conv.network = (CASE n = 0 -> "Mainnet" [] n = 1 -> "Testnet"
                                         [] n = 2 -> "Signet" [] n = 3 -> "Regtest")
               ELSE /\ last.ret = -1
                    /\ ~conv.ok
                    /\ conv.err.kind = "InvalidInput"
                    /\ conv.err.args = <<n>>

\* vault_init(4) has been refused while a string from an earlier call is live
InitRefusedAfterOtherCalls ==
    /\ last.op = "vault_init"
    /\ last.arg = 4
    /\ last.ret = -1
    /\ DOMAIN heap # {}

\* the documented code of each error kind
DocumentedCode ==
    [InvalidXpub |-> 1001, InvalidAddress |-> 1002, NetworkMismatch |-> 1003,
     PsbtError |-> 2001, InsufficientFunds |-> 2002, PolicyViolation |-> 2003,
     DerivationError |-> 3001, MetadataError |-> 3002,
     SerializationError |-> 4001, InvalidInput |-> 4002]

\* C5: error code stability. CoreError::code gives each error its kind's
\* documented code whatever the payload, and no error of another kind has
\* that code.
ErrorCodeStability ==
    code_out # <<>>
        => /\ code_out[1] = DocumentedCode[error.kind]
           /\ \A e \in CoreErrors : e.kind # error.kind => code(e) # code_out[1]

\* an InsufficientFunds error with a payload has been asked for its code
InsufficientFundsCoded ==
    /\ code_out = <<2002>>
    /\ error.kind = "InsufficientFunds"
    /\ error.needed = 50000

\* C6 as stated: the encoding of a well-formed metadata value has length
\* 15 + T + D and the byte-exact layout; the test metadata encodes to 29 bytes.
EncodedLength15 ==
    (pc = "ready" /\ origin = "encoded" /\ WellFormed(metadata))
        => /\ Len(data) = 15 + Len(metadata.template_id) + Len(metadata.destination_indices)
           /\ LaidOut(data, metadata)
           /\ (metadata = TestMetadata => Len(data) = 29)

\* C6, amended: the encoding of a well-formed metadata value has length
\* 16 + T + D (1 + 1 + T + 4 + 1 + D + 1 + 4 + 4) and the byte-exact layout;
\* the test metadata encodes to 29 bytes.
EncodedLength16 ==
    (pc = "ready" /\ origin = "encoded" /\ WellFormed(metadata))
        => /\ Len(data) = 16 + Len(metadata.template_id) + Len(metadata.destination_indices)
           /\ LaidOut(data, metadata)
           /\ (metadata = TestMetadata => Len(data) = 29)

\* the test metadata ("savings_v1", [0, 1, 2]) has been encoded
TestMetadataEncoded ==
    /\ pc = "ready"
    /\ origin = "encoded"
    /\ metadata = TestMetadata
    /\ Len(data) = 29

\* C7: null handle safety. In any sequence of boundary calls, a call of
\* free_rust_string with the null pointer releases nothing and does not
\* fault: every live string stays live and unchanged.
NullFreeIsNoOp ==
    [][(last'.op = "free_rust_string" /\ last'.arg = NULL)
          => (heap' = heap /\ fault' = fault)]_vars

\* free_rust_string(null) has returned while strings are live
NullFreedWithLiveStrings ==
    /\ last.op = "free_rust_string"
    /\ last.arg = NULL
    /\ DOMAIN heap # {}
    /\ ~fault

\* C8: decoding is total and bounds-safe. Whatever the buffer, from_bytes
\* returns Ok or Err(MetadataError), every index it reads is below the
\* buffer's length, and the empty buffer is refused with no byte read.
DecodeTotalAndBoundsSafe ==
    pc = "decoded"
        => /\ result.kind \in {"Ok", "Err"}
           /\ result.kind = "Err" => result.err.kind = "MetadataError"
           /\ \A i \in result.reads : i >= 0 /\ i < Len(data)
           /\ Len(data) = 0 => (result.kind = "Err" /\ result.reads = {})

\* a buffer whose destination count was overwritten has been decoded and refused
BadCountDecoded ==
    /\ pc = "decoded"
    /\ origin = "tampered"
    /\ result.kind = "Err"
    /\ result.err.text = "Invalid destination_indices length"
    /\ result.reads # {}

\* C9: truncated-field identification. When decoding fails because bytes are
\* missing at a position of the layout, the MetadataError names the field of
\* the first such position.
TruncatedFieldIdentified ==
    (pc = "decoded" /\ Shortfall(data) # "none")
        => /\ result.kind = "Err"
           /\ result.err.kind = "MetadataError"
           /\ FieldNamed(result.err.text) = FieldOf(Shortfall(data))

\* C10: oversized fields. Encoding a metadata value whose template_id is longer
\* than 255 bytes or whose destination_indices has more than 255 entries writes
\* the length mod 256 as the prefix and then all of the bytes, and decoding
\* that encoding never gives back the value: it fails or gives another value.
OversizedNeverRoundTrips ==
    (origin = "encoded" /\ ~WellFormed(metadata))
        => /\ LaidOut(data, metadata)
           /\ Len(data) = 16 + Len(metadata.template_id) + Len(metadata.destination_indices)
           /\ pc = "decoded" => ~(result.kind = "Ok" /\ result.value = metadata)

\* the encoding of a 256-byte template_id has been decoded, to another value
OversizedDecodedToAnother ==
    /\ pc = "decoded"
    /\ origin = "encoded"
    /\ Len(metadata.template_id) = U8Mod
    /\ result.kind = "Ok"
    /\ result.value # metadata

==========================================================================
